---- MODULE Spec2Model ----
(***************************************************************************)
(* A model of gdb's Python support for synthetic debug information:        *)
(*   gdb/python/py-objfile-builder.c   gdb.ObjfileBuilder                  *)
(*   gdb/python/py-float-format.c      gdb.FloatFormat                     *)
(*   gdb/python/py-type-init.c         gdb.init_*_type                     *)
(*   gdbsupport/checkpoint-timer.h     gdb::checkpoint_timer               *)
(* One ObjfileBuilder object is modelled together with the objfiles it     *)
(* hands to the new_objfile observers.  The interpreter is single-threaded *)
(* but an observer attached to new_objfile (for instance a handler         *)
(* connected to gdb.events.new_objfile) runs Python code while build() is  *)
(* still on the stack, so every method of the builder can be entered from  *)
(* inside the notification.                                                *)
(***************************************************************************)
EXTENDS Integers, Sequences, FiniteSets, TLC

VARIABLES installed, name, symbols, stack, notified, built, last
VARIABLES ff, ffret
VARIABLES heap, tyret
VARIABLES life
VARIABLES timer, tmret

\* The variables of the builder, of the FloatFormat object, of the types,
\* the life of the memory of the builder object, and the checkpoint timer.
bvars == <<installed, name, symbols, stack, notified, built, last>>
ffvars == <<ff, ffret>>
tyvars == <<heap, tyret>>
lifevars == <<life>>
timervars == <<timer, tmret>>

vars == <<bvars, ffvars, tyvars, lifevars, timervars>>

\* What a call on the builder, on the FloatFormat object, leaves alone.
notbuilder == <<ffvars, tyvars, lifevars, timervars>>
notfloatformat == <<bvars, tyvars, lifevars, timervars>>

(***************************************************************************)
(* Bounds of the model.                                                    *)
(***************************************************************************)
\* Deepest nesting of build() calls that are inside new_objfile.notify.
MaxDepth == 2
\* Addresses handed to add_label_symbol / add_static_symbol are 1..MaxAddr.
MaxAddr == 2

(***************************************************************************)
(* Inputs.                                                                 *)
(***************************************************************************)
\* The optional keyword argument left out by the caller.
NoLang == "<omitted>"
\* A type argument that is not a gdb.Type.
NotAType == "<not a gdb.Type>"
\* No type set on a symbol.
NoType == "<no type>"

BuilderNames == {"m1", "m2"}
SymNames == {"n1", "n2"}
Addrs == 1..MaxAddr
Types == {"T1", "T2"}

(***************************************************************************)
(* parse_language: the chain of strcmp's.                                  *)
(***************************************************************************)
\* A chain whose last branch falls back to C instead of language_unknown.
parse_language_fallback(language) ==
  IF language = "ada" THEN "language_ada" ELSE "language_c"

parse_language(language) ==
  CASE language = "c" -> "language_c"
    [] language = "objc" -> "language_objc"
    [] language = "cplus" -> "language_cplus"
    [] language = "d" -> "language_d"
    [] language = "go" -> "language_go"
    [] language = "fortran" -> "language_fortran"
    [] language = "m2" -> "language_m2"
    [] language = "asm" -> "language_asm"
    [] language = "pascal" -> "language_pascal"
    [] language = "opencl" -> "language_opencl"
    [] language = "rust" -> "language_rust"
    [] language = "ada" -> "language_ada"
    [] OTHER -> "language_unknown"

\* The names parse_language recognizes.
RecognizedLanguages ==
  {"c", "objc", "cplus", "d", "go", "fortran", "m2", "asm", "pascal",
   "opencl", "rust", "ada"}

(***************************************************************************)
(* Argument parsing.  A format is the sequence of its characters; the      *)
(* units after a "|" are optional, all others are required.                *)
(***************************************************************************)
add_type_symbol_format == <<"s", "O", "s">>
add_label_symbol_format == <<"s", "k", "s">>
add_static_symbol_format == <<"s", "k", "s">>

\* Number of leading required arguments of a format.
RequiredArgs(format) ==
  IF \E i \in 1..Len(format) : format[i] = "|"
  THEN (CHOOSE i \in 1..Len(format) :
          format[i] = "|" /\ \A j \in 1..(i - 1) : format[j] # "|") - 1
  ELSE Len(format)

\* gdb_PyArg_ParseTupleAndKeywords on (name, value, language?): the call
\* passes two arguments when the language is left out, three otherwise.
ParseArgs(format, language) ==
  (IF language = NoLang THEN 2 ELSE 3) >= RequiredArgs(format)

\* language_name after the parse and the defaulting of a null pointer.
language_name_of(language) == IF language = NoLang THEN "auto" ELSE language

(***************************************************************************)
(* Symbol definitions held by the builder.                                 *)
(***************************************************************************)
typedef_symbol_def(type, language) ==
  [kind |-> "typedef", type |-> type, address |-> 0, language |-> language]

label_symbol_def(address, language) ==
  [kind |-> "label", type |-> NoType, address |-> address,
   language |-> language]

static_symbol_def(address, language) ==
  [kind |-> "static", type |-> NoType, address |-> address,
   language |-> language]

\* std::unordered_map::insert: an existing key keeps its value.
\* What unordered_map::insert reports: whether the pair was inserted.
add_symbol_def_inserted(syms, n) == n \notin DOMAIN syms

\* An insertion that replaces the definition held under the name.
add_symbol_def_overwrite(syms, n, def) ==
  [m \in DOMAIN syms \cup {n} |-> IF m = n THEN def ELSE syms[m]]

\* unordered_map::insert: a name that is present keeps its definition.
add_symbol_def(syms, n, def) ==
  IF n \in DOMAIN syms THEN syms
  ELSE [m \in DOMAIN syms \cup {n} |-> IF m = n THEN def ELSE syms[m]]

EmptyMap == [m \in {} |-> 0]

(***************************************************************************)
(* The objfile under construction.                                         *)
(***************************************************************************)
\* Entries allocated for the section table (OBSTACK_CALLOC ... 4 ...).
NumSections == 4
sect_index_text == 0
sect_index_data == 1
sect_index_rodata == 2
sect_index_bss == 3

\* Memory of the objfile obstack seen through sections_start[i]: the table
\* is 0..NumSections-1, the slots from NumSections on lie past sections_end.
SectionSlots == 0..NumSections

\* No placeholder bfd_section.
NullBfd == [alloc |-> FALSE, vma |-> 0, size |-> 0, lma |-> 0, intact |-> TRUE]

\* A zero-filled obj_section.
ZeroSection ==
  [objfile |-> FALSE, ovly_mapped |-> FALSE, the_bfd_section |-> NullBfd]

\* Where a store past sections_end lands: in memory nothing else uses, or
\* on the placeholder that was allocated right behind the table.
StrayOutcomes == {"unused", "placeholder"}

\* objfile::make (nullptr, name, OBJF_READNOW | OBJF_NOT_FILENAME, nullptr)
objfile_make(bname) ==
  [name |-> bname,
   flags |-> {"OBJF_READNOW", "OBJF_NOT_FILENAME"},
   sections |-> [i \in {} |-> ZeroSection],
   sections_end |-> 0,
   sect_index_text |-> -1,
   sect_index_data |-> -1,
   sect_index_rodata |-> -1,
   sect_index_bss |-> -1,
   sf |-> FALSE,
   gdbarch |-> FALSE,
   qf |-> {},
   msymbols |-> {},
   compunits |-> {}]

\* The init_section lambda applied to &of->sections_start[i].
init_section(secs, i, stray) ==
  LET bfd == [alloc |-> TRUE, vma |-> 0, size |-> 0, lma |-> 0,
              intact |-> TRUE]
      written == [secs EXCEPT ![i] = [objfile |-> TRUE,
                                      ovly_mapped |-> FALSE,
                                      the_bfd_section |-> bfd]]
  IN  IF i >= NumSections /\ stray = "placeholder"
      THEN [written EXCEPT ![0].the_bfd_section.intact = FALSE]
      ELSE written

\* The indices the four init_section calls are applied to, in order.
InitSectionCalls == <<0, 1, 2, 4>>

RECURSIVE init_sections(_, _, _)
init_sections(secs, k, stray) ==
  IF k > Len(InitSectionCalls) THEN secs
  ELSE init_sections(init_section(secs, InitSectionCalls[k], stray),
                     k + 1, stray)

\* "Setup object file sections": allocation, initialisation, indices.
setup_sections(of, stray) ==
  [of EXCEPT
     !.sections = init_sections([i \in SectionSlots |-> ZeroSection], 1, stray),
     !.sections_end = NumSections,
     !.sect_index_text = sect_index_text,
     !.sect_index_data = sect_index_data,
     !.sect_index_rodata = sect_index_rodata,
     !.sect_index_bss = sect_index_bss]

(***************************************************************************)
(* Symbols and the two registrations of each kind of definition.           *)
(***************************************************************************)
new_symbol(n, language, domain, aclass, section_index) ==
  [name |-> n, language |-> language, domain |-> domain, aclass |-> aclass,
   section_index |-> section_index, is_objfile_owned |-> TRUE,
   type |-> NoType, has_address |-> FALSE, address |-> 0]

\* A Typedef definition that also records a minimal symbol.
typedef_register_msymbol_entry(n, def) ==
  {[name |-> n, address |-> def.address, type |-> "mst_text"]}

\* typedef_symbol_def::register_msymbol has an empty body.
typedef_register_msymbol(n, def) == {}

typedef_register_symbol(n, def, of) ==
  [new_symbol(n, def.language, "LABEL_DOMAIN", "LOC_TYPEDEF",
              of.sect_index_text)
     EXCEPT !.type = def.type]

\* The label recorded with the kind of a static symbol.
label_register_msymbol_bss(n, def) ==
  {[name |-> n, address |-> def.address, type |-> "mst_bss"]}

label_register_msymbol(n, def) ==
  {[name |-> n, address |-> def.address, type |-> "mst_text"]}

label_register_symbol(n, def, of) ==
  [new_symbol(n, def.language, "LABEL_DOMAIN", "LOC_LABEL",
              of.sect_index_text)
     EXCEPT !.has_address = TRUE, !.address = def.address]

static_register_msymbol(n, def) ==
  {[name |-> n, address |-> def.address, type |-> "mst_bss"]}

\* The static symbol put in the section slot of the labels.
static_register_symbol_text(n, def, of) ==
  [new_symbol(n, def.language, "VAR_DOMAIN", "LOC_STATIC",
              of.sect_index_text)
     EXCEPT !.has_address = TRUE, !.address = def.address]

static_register_symbol(n, def, of) ==
  [new_symbol(n, def.language, "VAR_DOMAIN", "LOC_STATIC",
              of.sect_index_bss)
     EXCEPT !.has_address = TRUE, !.address = def.address]

\* Virtual dispatch on the kind of definition.
register_msymbol(n, def) ==
  CASE def.kind = "typedef" -> typedef_register_msymbol(n, def)
    [] def.kind = "label" -> label_register_msymbol(n, def)
    [] def.kind = "static" -> static_register_msymbol(n, def)

register_symbol(n, def, of) ==
  CASE def.kind = "typedef" -> typedef_register_symbol(n, def, of)
    [] def.kind = "label" -> label_register_symbol(n, def, of)
    [] def.kind = "static" -> static_register_symbol(n, def, of)

(***************************************************************************)
(* build_new_objfile, as the sequence of its steps.  A step may throw; the *)
(* steps after it are then not run.                                        *)
(***************************************************************************)
\* The notification moved before the full symbols are made.
BuildSteps_notify_early ==
  <<"make", "sections", "sf", "gdbarch", "msymbols", "msym_install",
    "notify", "symbols", "end_compunit_symtab">>

BuildSteps ==
  <<"make", "sections", "sf", "gdbarch", "msymbols", "msym_install",
    "symbols", "end_compunit_symtab", "notify">>

\* The steps that can raise a gdb error, and "none" for a run without one.
FailPoints == {"none", "make", "gdbarch", "msymbols", "symbols"}

\* The state build_new_objfile works on: the objfile, the minimal symbols
\* recorded by the reader and not yet installed, the file symbols pending in
\* the buildsym_compunit, the steps completed so far, and what the observers
\* were shown: the objfile and the steps that had been completed on it.
BuildStart ==
  [of |-> objfile_make(""), reader |-> {}, file_symbols |-> {},
   done |-> <<>>, shown |-> <<>>, thrown |-> FALSE]

build_step(step, st, bname, syms, stray) ==
  CASE step = "make" -> [st EXCEPT !.of = objfile_make(bname)]
    [] step = "sections" -> [st EXCEPT !.of = setup_sections(st.of, stray)]
    [] step = "sf" -> [st EXCEPT !.of.sf = TRUE]
    [] step = "gdbarch" -> [st EXCEPT !.of.gdbarch = TRUE]
    [] step = "msymbols" ->
         [st EXCEPT !.reader =
            UNION {register_msymbol(n, syms[n]) : n \in DOMAIN syms}]
    [] step = "msym_install" ->
         [st EXCEPT !.of.msymbols = st.reader, !.reader = {}]
    [] step = "symbols" ->
         [st EXCEPT !.file_symbols =
            {register_symbol(n, syms[n], st.of) : n \in DOMAIN syms}]
    [] step = "end_compunit_symtab" ->
         [st EXCEPT !.of.compunits =
            {[name |-> bname, symbols |-> st.file_symbols]},
                    !.file_symbols = {}]
    [] step = "notify" ->
         [st EXCEPT !.shown = Append(st.shown, [of |-> st.of, done |-> st.done])]

RECURSIVE run_steps(_, _, _, _, _, _)
run_steps(st, k, bname, syms, failAt, stray) ==
  IF k > Len(BuildSteps) THEN st
  ELSE IF BuildSteps[k] = failAt THEN [st EXCEPT !.thrown = TRUE]
  ELSE LET after == build_step(BuildSteps[k], st, bname, syms, stray)
       IN  run_steps([after EXCEPT !.done = Append(st.done, BuildSteps[k])],
                     k + 1, bname, syms, failAt, stray)

build_new_objfile(bname, syms, failAt, stray) ==
  run_steps(BuildStart, 1, bname, syms, failAt, stray)

(***************************************************************************)
(* Lookups in a built objfile.                                             *)
(***************************************************************************)
\* The symbols of the full table, over all compunits.
full_symbols(of) == UNION {cu.symbols : cu \in of.compunits}

\* The entries of the minimal symbol table recorded under a name.
lookup_minimal_symbol(of, n) == {m \in of.msymbols : m.name = n}

\* The types a type name resolves to: the typedef-class symbols of that
\* name in the domain of variables, functions and typedef names.
lookup_typename(of, n) ==
  {sym.type : sym \in {x \in full_symbols(of) :
                         /\ x.name = n
                         /\ x.domain = "VAR_DOMAIN"
                         /\ x.aclass = "LOC_TYPEDEF"}}

(***************************************************************************)
(* The builder object.                                                     *)
(*   installed, name, symbols   objfile_builder_data                       *)
(*   notified   the objfiles the new_objfile observers were notified of,   *)
(*              in order; an objfile is referred to by its place here      *)
(*   stack      the objfiles whose notification is still running, the      *)
(*              innermost last: one per build() that has not returned      *)
(*   built      the objfiles returned by build(), in order                 *)
(*   last       the call that was made last and how it ended               *)
(***************************************************************************)
\* A missing argument of __init__.
NoName == "<no name>"

Call(op, lang, result) == [op |-> op, lang |-> lang, result |-> result]

\* What an add_*_symbol call does once its arguments are parsed: the result
\* and the symbol map it leaves.
add_outcome(n, language, def_of) ==
  LET language_name == language_name_of(language)
      lang == parse_language(language_name)
  IN  IF lang = "language_unknown"
      THEN [result |-> "ValueError", symbols |-> symbols]
      ELSE [result |-> "ok",
            symbols |-> add_symbol_def(symbols, n, def_of[lang])]

Languages == {parse_language(l) : l \in RecognizedLanguages}

objbdpy_add_type_symbol(n, type, language) ==
  LET out == IF ~ParseArgs(add_type_symbol_format, language)
                  \/ type = NotAType
             THEN [result |-> "TypeError", symbols |-> symbols]
             ELSE add_outcome(n, language,
                    [l \in Languages |-> typedef_symbol_def(type, l)])
  IN  /\ symbols' = out.symbols
      /\ last' = Call("add_type_symbol", language, out.result)
      /\ UNCHANGED <<installed, name, stack, notified, built>>

objbdpy_add_label_symbol(n, address, language) ==
  LET out == IF ~ParseArgs(add_label_symbol_format, language)
             THEN [result |-> "TypeError", symbols |-> symbols]
             ELSE add_outcome(n, language,
                    [l \in Languages |-> label_symbol_def(address, l)])
  IN  /\ symbols' = out.symbols
      /\ last' = Call("add_label_symbol", language, out.result)
      /\ UNCHANGED <<installed, name, stack, notified, built>>

objbdpy_add_static_symbol(n, address, language) ==
  LET out == IF ~ParseArgs(add_static_symbol_format, language)
             THEN [result |-> "TypeError", symbols |-> symbols]
             ELSE add_outcome(n, language,
                    [l \in Languages |-> static_symbol_def(address, l)])
  IN  /\ symbols' = out.symbols
      /\ last' = Call("add_static_symbol", language, out.result)
      /\ UNCHANGED <<installed, name, stack, notified, built>>

\* A build() that forgets the test of installed.
build_refused_never(inst) == FALSE

\* The test objbdpy_build makes before it builds.
build_refused(inst) == inst

\* objbdpy_build up to and including new_objfile.notify: refused, thrown
\* out of build_new_objfile, or inside the observers with the objfile made.
\* depth bounds the nesting of calls that are inside the notification.
\* self is always an ObjfileBuilder here, so validate_objfile_builder_object
\* passes; build_new_objfile is entered with installed false, so its
\* gdb_assert passes.
objbdpy_build(failAt, stray, depth) ==
  IF build_refused(installed)
  THEN /\ last' = Call("build", NoLang, "ValueError")
       /\ UNCHANGED <<installed, name, symbols, stack, notified, built>>
  ELSE LET st == build_new_objfile(name, symbols, failAt, stray)
       IN  IF st.thrown
           THEN /\ notified' = notified \o st.shown
                /\ last' = Call("build", NoLang, "exception")
                /\ UNCHANGED <<installed, name, symbols, stack, built>>
           ELSE /\ Len(stack) < depth
                /\ notified' = notified \o st.shown
                /\ stack' = Append(stack, Len(notified'))
                /\ last' = Call("build", NoLang, "notifying")
                /\ UNCHANGED <<installed, name, symbols, built>>

\* The rest of objbdpy_build, once the observers have returned.
objbdpy_build_return ==
  /\ stack # <<>>
  /\ installed' = TRUE
  /\ built' = Append(built, stack[Len(stack)])
  /\ stack' = SubSeq(stack, 1, Len(stack) - 1)
  /\ last' = Call("build", NoLang, "ok")
  /\ UNCHANGED <<name, symbols, notified>>

\* An initializer that makes the builder as new: installed is cleared too.
objbdpy_init_reset(bname) ==
  IF bname = NoName
  THEN /\ last' = Call("__init__", NoLang, "TypeError")
       /\ UNCHANGED <<installed, name, symbols, stack, notified, built>>
  ELSE /\ name' = bname
       /\ symbols' = EmptyMap
       /\ installed' = FALSE
       /\ last' = Call("__init__", NoLang, "ok")
       /\ UNCHANGED <<stack, notified, built>>

objbdpy_init(bname) ==
  IF bname = NoName
  THEN /\ last' = Call("__init__", NoLang, "TypeError")
       /\ UNCHANGED <<installed, name, symbols, stack, notified, built>>
  ELSE /\ name' = bname
       /\ symbols' = EmptyMap
       /\ last' = Call("__init__", NoLang, "ok")
       /\ UNCHANGED <<installed, stack, notified, built>>

\* objbdpy_new followed by the first objbdpy_init.
InitBuilder(bnames) ==
  /\ installed = FALSE
  /\ name \in bnames
  /\ symbols = EmptyMap
  /\ stack = <<>>
  /\ notified = <<>>
  /\ built = <<>>
  /\ last = Call("__init__", NoLang, "ok")

(***************************************************************************)
(* gdb/python/py-float-format.c   gdb.FloatFormat                          *)
(*   ff      the struct floatformat held by one FloatFormat object         *)
(*   ffret   the call made last on the object: the operation, the field,   *)
(*           the argument, how it ended and the object it returned         *)
(* The widths of int and long are scaled down: int has IntBits bits and    *)
(* long twice as many, as on the LP64 hosts, where long is the wider type. *)
(***************************************************************************)
IntBits == 3
LongBits == 2 * IntBits

INT_MAX == 2 ^ (IntBits - 1) - 1
INT_MIN == -(2 ^ (IntBits - 1))
UINT_MAX == 2 ^ IntBits - 1
LONG_MAX == 2 ^ (LongBits - 1) - 1
LONG_MIN == -(2 ^ (LongBits - 1))

\* Conversions between the integer types: the value modulo the width.
to_unsigned_int(v) == v % (2 ^ IntBits)
to_int(v) == ((v + 2 ^ (IntBits - 1)) % (2 ^ IntBits)) - 2 ^ (IntBits - 1)
to_long(v) == ((v + 2 ^ (LongBits - 1)) % (2 ^ LongBits)) - 2 ^ (LongBits - 1)

\* Python objects: integers of any size, the two bools, and anything else.
PyInt(v) == [t |-> "int", v |-> v]
PyBool(b) == [t |-> "bool", v |-> IF b THEN 1 ELSE 0]
PyNone == [t |-> "None", v |-> 0]
PyOther == [t |-> "str", v |-> 0]

\* bool is a subclass of int.
PyLong_Check(object) == object.t \in {"int", "bool"}
PyBool_Check(object) == object.t = "bool"

\* PyLong_AsLong: the value, or -1 with OverflowError set when the value
\* does not fit a long.
PyLong_AsLong(object) ==
  IF object.v > LONG_MAX \/ object.v < LONG_MIN
  THEN [val |-> -1, overflow |-> TRUE]
  ELSE [val |-> object.v, overflow |-> FALSE]

PyLong_FromLong(v) == PyInt(v)

floatformat_intbit_yes == 0
floatformat_intbit_no == 1

\* The result of a converter: whether it succeeded, the native value, the
\* exception it raised, and whether an exception raised by PyLong_AsLong
\* was left pending.
Converted(val, pending) ==
  [ok |-> TRUE, val |-> val, err |-> "none", pending |-> pending]
ConvertFailed(err) ==
  [ok |-> FALSE, val |-> 0, err |-> err, pending |-> FALSE]

intbit_to_py(intbit) == PyBool(intbit = floatformat_intbit_yes)

py_to_intbit(object) ==
  IF ~PyBool_Check(object)
  THEN ConvertFailed("TypeError")
  ELSE Converted(IF object.v = 1 THEN floatformat_intbit_yes
                 ELSE floatformat_intbit_no, FALSE)

\* A converter without the test for values below zero.
py_to_unsigned_int_no_lower(object) ==
  IF ~PyLong_Check(object)
  THEN ConvertFailed("TypeError")
  ELSE LET native_val == PyLong_AsLong(object)
       IN  IF native_val.val > to_long(UINT_MAX)
           THEN ConvertFailed("ValueError")
           ELSE Converted(to_unsigned_int(native_val.val),
                          native_val.overflow)

py_to_unsigned_int(object) ==
  IF ~PyLong_Check(object)
  THEN ConvertFailed("TypeError")
  ELSE LET native_val == PyLong_AsLong(object)
       IN  IF native_val.val > to_long(UINT_MAX)
           THEN ConvertFailed("ValueError")
           ELSE IF native_val.val < 0
           THEN ConvertFailed("ValueError")
           ELSE Converted(to_unsigned_int(native_val.val),
                          native_val.overflow)

py_to_int(object) ==
  IF ~PyLong_Check(object)
  THEN ConvertFailed("TypeError")
  ELSE LET native_val == PyLong_AsLong(object)
       IN  IF native_val.val > to_long(INT_MAX)
           THEN ConvertFailed("ValueError")
           ELSE Converted(to_int(native_val.val), native_val.overflow)

\* The fields with a getter and a setter, by the type of the field.
UnsignedFields ==
  {"totalsize", "sign_start", "exp_start", "exp_len", "exp_nan",
   "man_start", "man_len"}
SignedFields == {"exp_bias"}
IntbitFields == {"intbit"}
FloatFormatFields == UnsignedFields \cup SignedFields \cup IntbitFields

\* floatformat (): every field zero.
floatformat_zero == [f \in FloatFormatFields |-> 0]

\* A getter of an unsigned field that reads the value as an int.
field_to_py_as_int(field, value) ==
  IF field \in IntbitFields
  THEN intbit_to_py(value)
  ELSE PyLong_FromLong(to_long(to_int(value)))

\* INSTANCE_FIELD_GETTER: the conversion of the field to a Python object.
\* PyLong_FromLong takes a long; an unsigned int or an int is widened.
field_to_py(field, value) ==
  IF field \in IntbitFields
  THEN intbit_to_py(value)
  ELSE PyLong_FromLong(to_long(value))

\* INSTANCE_FIELD_SETTER: the converter of the field.
py_to_field(field, object) ==
  CASE field \in UnsignedFields -> py_to_unsigned_int(object)
    [] field \in SignedFields -> py_to_int(object)
    [] field \in IntbitFields -> py_to_intbit(object)

FFCall(op, field, arg, result, value) ==
  [op |-> op, field |-> field, arg |-> arg, result |-> result,
   value |-> value]

\* ffpy_get_<field>.
ffpy_get(field) ==
  /\ ffret' = FFCall("get", field, PyNone, "ok", field_to_py(field, ff[field]))
  /\ UNCHANGED ff

\* ffpy_set_<field>.  A setter that succeeds while the OverflowError of
\* PyLong_AsLong is set returns 0 with the exception pending.
ffpy_set(field, value) ==
  LET native_value == py_to_field(field, value)
  IN  IF ~native_value.ok
      THEN /\ ffret' = FFCall("set", field, value, native_value.err, PyNone)
           /\ UNCHANGED ff
      ELSE /\ ff' = [ff EXCEPT ![field] = native_value.val]
           /\ ffret' = FFCall("set", field, value,
                              IF native_value.pending
                              THEN "ok, OverflowError pending" ELSE "ok",
                              PyNone)

\* ffpy_init.
ffpy_init ==
  /\ ff' = floatformat_zero
  /\ ffret' = FFCall("__init__", "none", PyNone, "ok", PyNone)

InitFloatFormat ==
  /\ ff = floatformat_zero
  /\ ffret = FFCall("__init__", "none", PyNone, "ok", PyNone)

(***************************************************************************)
(* gdb/python/py-type-init.c   gdb.init_*_type                             *)
(*   heap    what was allocated on the obstacks of the architecture and of *)
(*           the objfile, in order: copies of names, copies of float       *)
(*           formats and types; each is referred to by its place here      *)
(*   tyret   the call made last: the operation, the owner argument, how it *)
(*           ended, the type returned, and the services of the owner it    *)
(*           called                                                        *)
(***************************************************************************)
\* Most allocations the obstacks take together.
MaxHeap == 4

\* The objects passed as owner.
ArchObject == "gdb.Architecture"
ObjfileObject == "gdb.Objfile"
OtherObject == "<other object>"

gdbpy_is_architecture(owner) == owner = ArchObject

\* objfile_object_to_objfile: the objfile, or null.
NullObjfile == "<null>"
objfile_object_to_objfile(owner) ==
  IF owner = ObjfileObject THEN "objfile" ELSE NullObjfile

\* type_storage_owner: the kind the constructor settles on.
type_storage_owner(owner) ==
  IF gdbpy_is_architecture(owner) THEN "arch"
  ELSE IF objfile_object_to_objfile(owner) # NullObjfile THEN "objfile"
  ELSE "none"

valid(kind) == kind # "none"

\* No allocation, no type: the null pointer.
Null == 0
\* The struct floatformat inside the FloatFormat object.
SourceFormat == -1

\* The body of a type.
TypeBody(code, bits, unsigned, name_ref, target, format) ==
  [code |-> code, bits |-> bits, unsigned |-> unsigned, name |-> name_ref,
   target |-> target, format |-> format]
NoBody == TypeBody("none", 0, FALSE, Null, Null, Null)

\* One allocation: the obstack it is on, what it is, and its contents.
Alloc(arena, what, text, fmt, body) ==
  [arena |-> arena, what |-> what, text |-> text, fmt |-> fmt,
   body |-> body]

\* obstack_strndup on an obstack: the heap with the copy, and the copy.
obstack_strndup(hp, arena, str) ==
  [heap |-> Append(hp, Alloc(arena, "name", str, floatformat_zero, NoBody)),
   ref |-> Len(hp) + 1]

\* type_allocator::new_type and what the init_* function of gdbtypes.c sets
\* on the type: the heap with the type, and the type.
new_type(hp, arena, body) ==
  [heap |-> Append(hp, Alloc(arena, "type", "", floatformat_zero, body)),
   ref |-> Len(hp) + 1]

\* A call of a service of the owner, and whether its gdb_assert holds.
Service(service, kind) == [service |-> service, asserted |-> valid(kind)]

\* type_storage_owner::copy_string: obstack_strndup on the owner's obstack.
copy_string(hp, kind, py_str) == obstack_strndup(hp, kind, py_str)

\* What a handler has done when it returns.
Outcome(hp, result, type, calls) ==
  [heap |-> hp, result |-> result, type |-> type, calls |-> calls]

\* type_object_to_type: the type of a gdb.Type object, null for another
\* object.  A gdb.Type object is given by the place of its type.
NotATypeObject == 0
type_object_to_type(hp, type_object) ==
  IF type_object \in 1..Len(hp) /\ hp[type_object].what = "type"
  THEN type_object ELSE Null

\* The handlers that take an owner, a name and the properties of a scalar
\* type: the owner is tested, the name is copied to the owner's obstack, the
\* type is made by the owner's allocator.
\* A handler that uses the services of the owner without the test of valid.
init_on_owner_unchecked(hp, owner_object, py_name, code, bits, unsigned) ==
  LET kind == type_storage_owner(owner_object)
      nm == copy_string(hp, kind, py_name)
      ty == new_type(nm.heap, kind,
                     TypeBody(code, bits, unsigned, nm.ref, Null, Null))
  IN  Outcome(ty.heap, "ok", ty.ref,
              <<Service("copy_string", kind),
                Service("get_obstack", kind),
                Service("allocator", kind)>>)

init_on_owner(hp, owner_object, py_name, code, bits, unsigned) ==
  LET kind == type_storage_owner(owner_object)
  IN  IF ~valid(kind)
      THEN Outcome(hp, "TypeError", Null, <<>>)
      ELSE LET nm == copy_string(hp, kind, py_name)
               ty == new_type(nm.heap, kind,
                              TypeBody(code, bits, unsigned, nm.ref, Null,
                                       Null))
           IN  Outcome(ty.heap, "ok", ty.ref,
                       <<Service("copy_string", kind),
                         Service("get_obstack", kind),
                         Service("allocator", kind)>>)

init_type_outcome(hp, owner_object, code, bit_length, py_name) ==
  init_on_owner(hp, owner_object, py_name, code, bit_length, FALSE)

init_integer_type_outcome(hp, owner_object, bit_size, unsigned, py_name) ==
  init_on_owner(hp, owner_object, py_name, "TYPE_CODE_INT", bit_size,
                unsigned)

init_character_type_outcome(hp, owner_object, bit_size, unsigned, py_name) ==
  init_on_owner(hp, owner_object, py_name, "TYPE_CODE_CHAR", bit_size,
                unsigned)

init_boolean_type_outcome(hp, owner_object, bit_size, unsigned, py_name) ==
  init_on_owner(hp, owner_object, py_name, "TYPE_CODE_BOOL", bit_size,
                unsigned)

init_decfloat_type_outcome(hp, owner_object, bit_length, py_name) ==
  init_on_owner(hp, owner_object, py_name, "TYPE_CODE_DECFLOAT", bit_length,
                FALSE)

\* float_format_object_as_float_format: the struct inside the object, null
\* for an object that is no FloatFormat.
FloatFormatObject == "gdb.FloatFormat"
float_format_object_as_float_format(object) ==
  IF object = FloatFormatObject THEN SourceFormat ELSE Null

\* A format pointer followed to the format it points to.
format_at(hp, source, ref) == IF ref = SourceFormat THEN source ELSE hp[ref].fmt

\* The type is handed the format of the object itself.
persist_format_shared(hp, kind, source, local_ff) ==
  [heap |-> hp, ref |-> local_ff]

\* OBSTACK_CALLOC of a struct floatformat on the owner's obstack and the
\* memcpy of the format into it.
persist_format(hp, kind, source, local_ff) ==
  [heap |-> Append(hp, Alloc(kind, "floatformat", "",
                             format_at(hp, source, local_ff), NoBody)),
   ref |-> Len(hp) + 1]

init_float_type_outcome(hp, source, owner_object, float_format_object, py_name) ==
  LET kind == type_storage_owner(owner_object)
      local_ff == float_format_object_as_float_format(float_format_object)
  IN  IF ~valid(kind)
      THEN Outcome(hp, "TypeError", Null, <<>>)
      ELSE IF local_ff = Null
      THEN Outcome(hp, "SystemError", Null, <<>>)
      ELSE LET fmt == persist_format(hp, kind, source, local_ff)
               nm == copy_string(fmt.heap, kind, py_name)
               ty == new_type(nm.heap, kind,
                       TypeBody("TYPE_CODE_FLT",
                                format_at(fmt.heap, source,
                                          fmt.ref)["totalsize"],
                                FALSE, nm.ref, Null, fmt.ref))
           IN  Outcome(ty.heap, "ok", ty.ref,
                       <<Service("get_obstack", kind),
                         Service("get_arch", kind),
                         Service("copy_string", kind),
                         Service("get_obstack", kind),
                         Service("allocator", kind)>>)

\* can_create_complex_type: the codes a complex type can be made of.
can_create_complex_type(hp, type) ==
  hp[type].body.code \in {"TYPE_CODE_INT", "TYPE_CODE_FLT"}

\* init_complex_type: a complex type of the base type on the obstack of the
\* base type; an error for a base type that cannot be a complex base.
init_complex_type(hp, name_ref, type) ==
  IF ~can_create_complex_type(hp, type)
  THEN [heap |-> hp, ref |-> Null]
  ELSE new_type(hp, hp[type].arena,
                TypeBody("TYPE_CODE_COMPLEX", 2 * hp[type].body.bits, FALSE,
                         name_ref, type, Null))

init_complex_type_outcome(hp, type_object, py_name) ==
  LET type == type_object_to_type(hp, type_object)
  IN  IF type = Null
      THEN Outcome(hp, "SystemError", Null, <<>>)
      ELSE LET nm == obstack_strndup(hp, hp[type].arena, py_name)
               complex_type == init_complex_type(nm.heap, nm.ref, type)
           IN  IF complex_type.ref = Null
               THEN Outcome(complex_type.heap, "gdb.error", Null, <<>>)
               ELSE Outcome(complex_type.heap, "ok", complex_type.ref, <<>>)

\* init_pointer_type as gdbpy_init_pointer_type calls it: the allocator of
\* the owner, the name copied, the type of the target argument.
init_pointer_type(hp, kind, bit_length, name_ref, type) ==
  new_type(hp, kind,
           TypeBody("TYPE_CODE_PTR", bit_length, TRUE, name_ref, type, Null))

\* A handler that makes the pointer type in the storage of the target type.
init_pointer_type_outcome_in_place(hp, owner_object, type_object, bit_length, py_name) ==
  LET type == type_object_to_type(hp, type_object)
      kind == type_storage_owner(owner_object)
  IN  IF type = Null
      THEN Outcome(hp, "SystemError", Null, <<>>)
      ELSE IF ~valid(kind)
      THEN Outcome(hp, "TypeError", Null, <<>>)
      ELSE LET nm == copy_string(hp, kind, py_name)
           IN  Outcome([nm.heap EXCEPT ![type].body =
                          TypeBody("TYPE_CODE_PTR", bit_length, TRUE, nm.ref,
                                   type, Null)],
                       "ok", type,
                       <<Service("copy_string", kind),
                         Service("get_obstack", kind),
                         Service("allocator", kind)>>)

init_pointer_type_outcome(hp, owner_object, type_object, bit_length, py_name) ==
  LET type == type_object_to_type(hp, type_object)
      kind == type_storage_owner(owner_object)
  IN  IF type = Null
      THEN Outcome(hp, "SystemError", Null, <<>>)
      ELSE IF ~valid(kind)
      THEN Outcome(hp, "TypeError", Null, <<>>)
      ELSE LET nm == copy_string(hp, kind, py_name)
               pointer_type == init_pointer_type(nm.heap, kind, bit_length,
                                                 nm.ref, type)
           IN  Outcome(pointer_type.heap, "ok", pointer_type.ref,
                       <<Service("copy_string", kind),
                         Service("get_obstack", kind),
                         Service("allocator", kind)>>)

\* gdbpy_init_fixed_point_type takes its first argument for an objfile.
init_fixed_point_type_outcome(hp, objfile_object, bit_length, unsigned_p, py_name) ==
  LET objfile == objfile_object_to_objfile(objfile_object)
  IN  IF objfile = NullObjfile
      THEN Outcome(hp, "SystemError", Null, <<>>)
      ELSE LET nm == obstack_strndup(hp, objfile, py_name)
               ty == new_type(nm.heap, objfile,
                              TypeBody("TYPE_CODE_FIXED_POINT", bit_length,
                                       unsigned_p, nm.ref, Null, Null))
           IN  Outcome(ty.heap, "ok", ty.ref, <<>>)

TypeCall(op, owner, out) ==
  [op |-> op, owner |-> owner, result |-> out.result, type |-> out.type,
   calls |-> out.calls]

\* A handler returns: the obstacks keep what it allocated.
TypeReturn(op, owner, out) ==
  /\ Len(out.heap) <= MaxHeap
  /\ heap' = out.heap
  /\ tyret' = TypeCall(op, owner, out)

\* The owner of a call that takes none.
NoOwner == "<no owner>"

gdbpy_init_type(owner, code, bit_size, nm) ==
  TypeReturn("init_type", owner,
             init_type_outcome(heap, owner, code, bit_size, nm))

gdbpy_init_integer_type(owner, bit_size, unsigned, nm) ==
  TypeReturn("init_integer_type", owner,
             init_integer_type_outcome(heap, owner, bit_size, unsigned, nm))

gdbpy_init_character_type(owner, bit_size, unsigned, nm) ==
  TypeReturn("init_character_type", owner,
             init_character_type_outcome(heap, owner, bit_size, unsigned, nm))

gdbpy_init_boolean_type(owner, bit_size, unsigned, nm) ==
  TypeReturn("init_boolean_type", owner,
             init_boolean_type_outcome(heap, owner, bit_size, unsigned, nm))

gdbpy_init_float_type(owner, format, nm) ==
  TypeReturn("init_float_type", owner,
             init_float_type_outcome(heap, ff, owner, format, nm))

gdbpy_init_decfloat_type(owner, bit_size, nm) ==
  TypeReturn("init_decfloat_type", owner,
             init_decfloat_type_outcome(heap, owner, bit_size, nm))

gdbpy_init_complex_type(type, nm) ==
  TypeReturn("init_complex_type", NoOwner,
             init_complex_type_outcome(heap, type, nm))

gdbpy_init_pointer_type(owner, target, bit_size, nm) ==
  TypeReturn("init_pointer_type", owner,
             init_pointer_type_outcome(heap, owner, target, bit_size, nm))

gdbpy_init_fixed_point_type(owner, bit_size, unsigned, nm) ==
  TypeReturn("init_fixed_point_type", owner,
             init_fixed_point_type_outcome(heap, owner, bit_size, unsigned,
                                           nm))

\* Before the first call nothing is allocated.
InitTypes ==
  /\ heap = <<>>
  /\ tyret = [op |-> "none", owner |-> NoOwner, result |-> "ok",
              type |-> Null, calls |-> <<>>]

(***************************************************************************)
(* The memory of the ObjfileBuilder object.                                *)
(*   life.log      what was done to the memory of the object, in order     *)
(*   life.strayed  whether a method ran on memory holding no constructed   *)
(*                 objfile_builder_data                                    *)
(*   life.objects  the objects made so far                                 *)
(* Python calls tp_new, then tp_init, then methods while it holds a        *)
(* reference to the object, and tp_dealloc once, when the last reference   *)
(* is gone; a method that is running holds a reference to its self.        *)
(***************************************************************************)
\* Most ObjfileBuilder objects made one after the other.
MaxObjects == 2

\* objbdpy_new: tp_alloc returns zeroed memory, objfile_builder_data is
\* constructed in it.
NewSteps == <<"tp_alloc", "construct">>

\* objbdpy_dealloc that returns the memory first.
DeallocSteps_free_first == <<"tp_free", "destruct">>

\* objbdpy_dealloc: the destructor, then tp_free.
DeallocSteps == <<"destruct", "tp_free">>

\* The object exists for Python: allocated and not handed back.
Allocated(l) ==
  /\ \E i \in 1..Len(l.log) : l.log[i] = "tp_alloc"
  /\ \A i \in 1..Len(l.log) : l.log[i] # "tp_free"

\* The memory holds a constructed objfile_builder_data.
Constructed(l) ==
  /\ \E i \in 1..Len(l.log) : l.log[i] = "construct"
  /\ \A i \in 1..Len(l.log) : l.log[i] \notin {"destruct", "tp_free"}

\* A method of the object runs: it reads and writes self->inner.
Touch ==
  /\ Allocated(life)
  /\ life' = [life EXCEPT !.strayed = @ \/ ~Constructed(life)]

\* objbdpy_new.  A tp_alloc that returns null fails the gdb_assert.
objbdpy_new(alloc_ok) ==
  /\ ~Allocated(life)
  /\ life.objects < MaxObjects
  /\ stack = <<>>
  /\ IF alloc_ok
     THEN /\ life' = [log |-> NewSteps, strayed |-> FALSE,
                      objects |-> life.objects + 1]
          /\ installed' = FALSE
          /\ name' = ""
          /\ symbols' = EmptyMap
          /\ last' = Call("__new__", NoLang, "ok")
          /\ UNCHANGED <<stack, notified, built>>
     ELSE /\ last' = Call("__new__", NoLang, "internal-error")
          /\ UNCHANGED <<life, installed, name, symbols, stack, notified,
                         built>>

\* objbdpy_dealloc: no call on the object is running.
objbdpy_dealloc ==
  /\ Allocated(life)
  /\ stack = <<>>
  /\ life' = [life EXCEPT !.log = @ \o DeallocSteps]
  /\ last' = Call("dealloc", NoLang, "ok")
  /\ UNCHANGED <<installed, name, symbols, stack, notified, built>>

\* An object made by objbdpy_new.
InitLive == life = [log |-> NewSteps, strayed |-> FALSE, objects |-> 1]

\* No object yet.
InitNoObject ==
  /\ life = [log |-> <<>>, strayed |-> FALSE, objects |-> 0]
  /\ installed = FALSE
  /\ name = ""
  /\ symbols = EmptyMap
  /\ stack = <<>>
  /\ notified = <<>>
  /\ built = <<>>
  /\ last = Call("none", NoLang, "ok")

(***************************************************************************)
(* gdbsupport/checkpoint-timer.h   gdb::checkpoint_timer                   *)
(*   timer   the members of one checkpoint_timer: labels, times, events,   *)
(*           depth, max_depth                                              *)
(*   tmret   the call made last on it and how it ended, with the number of *)
(*           begin calls and of end calls that returned so far             *)
(* depth and max_depth are size_t: they count events held in memory and    *)
(* are far from the width of the type.  The time stamp counter is read as  *)
(* any value of its width, which is scaled down to TscBits bits.           *)
(***************************************************************************)
\* Most events recorded by one timer.
MaxEvents == 5

\* Width of a time stamp.
TscBits == 1
\* What __rdtsc () can return.
Ticks == 0..(2 ^ TscBits - 1)

\* The names handed to begin.
Labels == {"a", "b"}

\* The members after the constructor.
checkpoint_timer ==
  [labels |-> <<>>, times |-> <<>>, events |-> <<>>, depth |-> 0,
   max_depth |-> 0]

\* begin: the timer it leaves.
begin_outcome(t, nm, tsc) ==
  LET d == t.depth + 1
  IN  [labels |-> Append(t.labels, nm),
       times |-> Append(t.times, tsc),
       events |-> Append(t.events, "begin"),
       depth |-> d,
       max_depth |-> IF t.max_depth < d THEN d ELSE t.max_depth]

\* An end that records its event at depth zero too.
end_outcome_unchecked(t, tsc) ==
  [thrown |-> FALSE,
   timer |-> [t EXCEPT !.depth = IF @ = 0 THEN 0 ELSE @ - 1,
                       !.events = Append(@, "end"),
                       !.times = Append(@, tsc)]]

\* end: whether std::runtime_error was thrown, and the timer it leaves.
end_outcome(t, tsc) ==
  IF t.depth = 0
  THEN [thrown |-> TRUE, timer |-> t]
  ELSE [thrown |-> FALSE,
        timer |-> [t EXCEPT !.depth = @ - 1,
                            !.events = Append(@, "end"),
                            !.times = Append(@, tsc)]]

\* The locals of dump, before its loop: the stack, label_i, depth, the
\* lines printed (indentation and text), and whether the loop read a label
\* that is not there or the back of an empty stack.
DumpStart ==
  [stack |-> <<>>, label_i |-> 0, depth |-> 0, lines |-> <<>>,
   undefined |-> FALSE]

\* One turn of the loop of dump, for events[i].
dump_event(t, d, i) ==
  IF d.undefined THEN d
  ELSE IF t.events[i] = "begin"
  THEN IF d.label_i + 1 > Len(t.labels)
       THEN [d EXCEPT !.undefined = TRUE]
       ELSE [d EXCEPT
               !.stack = Append(@, <<t.labels[d.label_i + 1], t.times[i]>>),
               !.lines = Append(@, [indent |-> d.depth,
                                    text |-> t.labels[d.label_i + 1]]),
               !.label_i = @ + 1,
               !.depth = @ + 1]
  ELSE IF d.stack = <<>>
       THEN [d EXCEPT !.undefined = TRUE]
       ELSE LET beg_time == d.stack[Len(d.stack)][2]
                end_time == t.times[i]
            IN  [d EXCEPT
                   !.depth = @ - 1,
                   !.lines = Append(@, [indent |-> d.depth - 1,
                                        text |-> (end_time - beg_time)
                                                   % (2 ^ TscBits)]),
                   !.stack = SubSeq(@, 1, Len(@) - 1)]

RECURSIVE dump_loop(_, _, _)
dump_loop(t, d, i) ==
  IF i > Len(t.events) THEN d ELSE dump_loop(t, dump_event(t, d, i), i + 1)

\* dump: what it has done when its loop is over.
dump_outcome(t) == dump_loop(t, DumpStart, 1)

TimerCall(op, result, begins, ends) ==
  [op |-> op, result |-> result, begins |-> begins, ends |-> ends]

begin(nm, tsc) ==
  /\ Len(timer.events) < MaxEvents
  /\ timer' = begin_outcome(timer, nm, tsc)
  /\ tmret' = TimerCall("begin", "ok", tmret.begins + 1, tmret.ends)

end(tsc) ==
  LET out == end_outcome(timer, tsc)
  IN  /\ Len(out.timer.events) <= MaxEvents
      /\ timer' = out.timer
      /\ tmret' = IF out.thrown
                  THEN TimerCall("end", "std::runtime_error", tmret.begins,
                                 tmret.ends)
                  ELSE TimerCall("end", "ok", tmret.begins, tmret.ends + 1)

\* dump is const: it prints and leaves the timer as it is.
dump ==
  /\ timer' = timer
  /\ tmret' = TimerCall("dump",
                        IF dump_outcome(timer).undefined THEN "undefined"
                        ELSE "ok",
                        tmret.begins, tmret.ends)

InitTimer ==
  /\ timer = checkpoint_timer
  /\ tmret = TimerCall("checkpoint_timer", "ok", 0, 0)

(***************************************************************************)
(* Spec: the call protocol, calls from inside the notification included,   *)
(* over a small set of definitions.                                        *)
(***************************************************************************)
LangArgs == {NoLang, "c", "auto", "klingon"}

Init == InitBuilder({"m1"}) /\ InitFloatFormat /\ InitTypes /\ InitLive /\ InitTimer

Next ==
  \/ \E t \in {"T1", NotAType}, l \in LangArgs :
       objbdpy_add_type_symbol("n1", t, l) /\ UNCHANGED notbuilder
  \/ \E l \in LangArgs :
       objbdpy_add_label_symbol("n1", 1, l) /\ UNCHANGED notbuilder
  \/ \E l \in LangArgs :
       objbdpy_add_static_symbol("n1", 1, l) /\ UNCHANGED notbuilder
  \/ \E f \in FailPoints, s \in StrayOutcomes :
       objbdpy_build(f, s, MaxDepth) /\ UNCHANGED notbuilder
  \/ objbdpy_build_return /\ UNCHANGED notbuilder
  \/ \E b \in {"m1", NoName} : objbdpy_init(b) /\ UNCHANGED notbuilder

Spec == Init /\ [][Next]_vars

(***************************************************************************)
(* SpecData: the contents of the objfile built from any map of the three   *)
(* kinds of definitions, without calls from inside the notification.       *)
(***************************************************************************)
DataLangArgs == {"rust"}

InitData == InitBuilder(BuilderNames) /\ InitFloatFormat /\ InitTypes /\ InitLive /\ InitTimer

NextData ==
  \/ \E n \in SymNames, t \in Types, l \in DataLangArgs :
       objbdpy_add_type_symbol(n, t, l) /\ UNCHANGED notbuilder
  \/ \E n \in SymNames, a \in Addrs, l \in DataLangArgs :
       objbdpy_add_label_symbol(n, a, l) /\ UNCHANGED notbuilder
  \/ \E n \in SymNames, a \in Addrs, l \in DataLangArgs :
       objbdpy_add_static_symbol(n, a, l) /\ UNCHANGED notbuilder
  \/ \E s \in StrayOutcomes :
       objbdpy_build("none", s, 1) /\ UNCHANGED notbuilder
  \/ objbdpy_build_return /\ UNCHANGED notbuilder
  \/ \E b \in BuilderNames : objbdpy_init(b) /\ UNCHANGED notbuilder

SpecData == InitData /\ [][NextData]_vars

(***************************************************************************)
(* Properties.                                                             *)
(***************************************************************************)
AddOps == {"add_type_symbol", "add_label_symbol", "add_static_symbol"}

\* A step that is a call of build() (the step of its return ends "ok").
BuildCalled == last'.op = "build" /\ last'.result # "ok"

\* C1: over every sequence of operations on the builder at most one build()
\* succeeds and at most one objfile is announced to the observers, also when
\* build() is called again from inside the notification of a build() that
\* has not returned yet.
C1_AtMostOneBuild == Len(built) <= 1 /\ Len(notified) <= 1

\* C2: build() on a builder whose installed flag is set fails with an error,
\* announces nothing, and leaves installed, name, the symbol map and the
\* objfiles built and announced so far as they were.
C2_BuildTwiceRefused ==
  [][(installed /\ BuildCalled) =>
       /\ last'.result = "ValueError"
       /\ UNCHANGED <<installed, name, symbols, stack, notified, built>>]_vars

C2_Witness ==
  /\ installed
  /\ Len(built) = 1
  /\ last = Call("build", NoLang, "ValueError")

\* C3: once the builder is installed every add_type_symbol, add_label_symbol
\* and add_static_symbol call is refused and leaves the symbol map as it was.
C3_AddAfterBuildRefused ==
  [][(installed /\ last'.op \in AddOps) =>
       (last'.result # "ok" /\ symbols' = symbols)]_vars

\* C4: the observers are notified of an objfile only after its minimal
\* symbols were installed and its compunit was ended, installed is set only
\* after the notification of the objfile returned, and a build() that throws
\* before the notification notifies nobody and leaves the builder not
\* installed with the symbol map it had.
C4_NotifyLast ==
  [][/\ \A i \in 1..Len(notified') :
          /\ \E k \in 1..Len(notified'[i].done) :
               notified'[i].done[k] = "msym_install"
          /\ \E k \in 1..Len(notified'[i].done) :
               notified'[i].done[k] = "end_compunit_symtab"
     /\ (installed' /\ ~installed) =>
          (stack # <<>> /\ stack[Len(stack)] \in 1..Len(notified))
     /\ (last'.op = "build" /\ last'.result = "exception") =>
          (~installed' /\ UNCHANGED <<installed, symbols, notified>>)]_vars

\* A build() called from inside a notification has thrown: one objfile was
\* announced, none by the call that threw, and the builder is not installed.
C4_Witness ==
  /\ last = Call("build", NoLang, "exception")
  /\ Len(notified) = 1
  /\ Len(stack) = 1
  /\ ~installed

\* A step in which build() has made an objfile and announced it.
BuildNotified == last'.op = "build" /\ last'.result = "notifying"

\* An initialized entry of the section table: the back-reference to the
\* objfile and a placeholder section of address and size zero.
InitializedSection(sec) ==
  /\ sec.objfile
  /\ sec.the_bfd_section.alloc
  /\ sec.the_bfd_section.vma = 0
  /\ sec.the_bfd_section.size = 0

\* C5: build() allocates a section table of exactly four entries, text,
\* data, rodata and bss at 0..3, initializes each of the four, writes no
\* entry outside the table, and the four section indices refer to
\* initialized entries.
C5_SectionTable ==
  \A i \in 1..Len(notified) :
    LET of == notified[i].of
    IN  /\ of.sections_end = 4
        /\ \A k \in 0..3 : InitializedSection(of.sections[k])
        /\ \A k \in DOMAIN of.sections :
             k >= of.sections_end => of.sections[k] = ZeroSection
        /\ <<of.sect_index_text, of.sect_index_data, of.sect_index_rodata,
             of.sect_index_bss>> = <<0, 1, 2, 3>>
        /\ \A k \in {of.sect_index_text, of.sect_index_data,
                     of.sect_index_rodata, of.sect_index_bss} :
             InitializedSection(of.sections[k])

C8_TypedefResolvable ==
  [][BuildNotified =>
       \A n \in DOMAIN symbols :
         symbols[n].kind = "typedef" =>
           LET of == notified'[Len(notified')].of
           IN  /\ \E sym \in full_symbols(of) :
                    /\ sym.name = n
                    /\ sym.aclass = "LOC_TYPEDEF"
                    /\ sym.type = symbols[n].type
                    /\ ~sym.has_address
               /\ lookup_typename(of, n) = {symbols[n].type}
               /\ lookup_minimal_symbol(of, n) = {}]_vars

\* C9: an add_*_symbol call that leaves out the language is accepted.
C9_DefaultLanguageAccepted ==
  (last.op \in AddOps /\ last.lang = NoLang) => last.result = "ok"

\* C10: an add_*_symbol call with a language that is not a recognized name
\* fails with an error and leaves the symbol map, the name and installed as
\* they were.
C10_UnknownLanguageRejected ==
  [][(/\ last'.op \in AddOps
      /\ last'.lang # NoLang
      /\ last'.lang \notin RecognizedLanguages) =>
       (/\ last'.result \in {"ValueError", "TypeError"}
        /\ UNCHANGED <<symbols, name, installed>>)]_vars

C10_Witness ==
  /\ last = Call("add_static_symbol", "klingon", "ValueError")
  /\ symbols = EmptyMap

(***************************************************************************)
(* SpecAdd: the symbol map of a builder that is not built yet, under       *)
(* additions of all three kinds in two languages.                          *)
(***************************************************************************)
AddLangArgs == {"c", "rust"}

InitAdd == InitBuilder({"m1"}) /\ InitFloatFormat /\ InitTypes /\ InitLive /\ InitTimer

NextAdd ==
  \/ \E n \in SymNames, t \in Types, l \in AddLangArgs :
       objbdpy_add_type_symbol(n, t, l) /\ UNCHANGED notbuilder
  \/ \E n \in SymNames, a \in Addrs, l \in AddLangArgs :
       objbdpy_add_label_symbol(n, a, l) /\ UNCHANGED notbuilder
  \/ \E n \in SymNames, a \in Addrs, l \in AddLangArgs :
       objbdpy_add_static_symbol(n, a, l) /\ UNCHANGED notbuilder
  \/ objbdpy_init("m1") /\ UNCHANGED notbuilder

SpecAdd == InitAdd /\ [][NextAdd]_vars

\* A step that is an add_*_symbol call for the name n.
AddCalledFor(n) ==
  /\ last'.op \in AddOps
  /\ \/ \E t \in Types, l \in AddLangArgs : objbdpy_add_type_symbol(n, t, l)
     \/ \E a \in Addrs, l \in AddLangArgs : objbdpy_add_label_symbol(n, a, l)
     \/ \E a \in Addrs, l \in AddLangArgs : objbdpy_add_static_symbol(n, a, l)

\* C11: an add_*_symbol call for a name the map already holds, whatever the
\* kinds of the two definitions, leaves the map as it was (the kind,
\* address, type and language of the first definition stay), the insertion
\* reports that nothing was inserted, and the call returns without an error.
C11_DuplicateNameKeepsFirst ==
  [][\A n \in SymNames :
       (n \in DOMAIN symbols /\ AddCalledFor(n)) =>
         /\ symbols' = symbols
         /\ ~add_symbol_def_inserted(symbols, n)
         /\ last'.result = "ok"]_vars

\* A Typedef in C was added under a name: the call returned without an
\* error, and the map holds no Typedef and nothing in C, only the
\* definitions in Rust made before.
C11_Witness ==
  /\ last = Call("add_type_symbol", "c", "ok")
  /\ DOMAIN symbols = SymNames
  /\ \A n \in DOMAIN symbols :
       symbols[n].kind # "typedef" /\ symbols[n].language = "language_rust"

\* The quick symbol functions written for the objfiles made here: what each
\* of its functions answers.
runtime_objfile ==
  [has_symbols |-> FALSE, expand_symtabs_matching |-> TRUE]

\* C12: every objfile returned by a build() that succeeded has a quick
\* symbol provider attached, and every provider attached to it reports no
\* symbols of its own and ends every expansion query at once.
C12_QuickProviderAttached ==
  \A i \in 1..Len(built) :
    LET of == notified[built[i]].of
    IN  /\ of.qf # {}
        /\ \A q \in of.qf : q = runtime_objfile

(***************************************************************************)
(* SpecFF: one FloatFormat object under its getters and setters, with      *)
(* arguments at and around the limits of unsigned int, int and long.       *)
(***************************************************************************)
UnsignedArgs ==
  {PyInt(v) : v \in {-1, 0, UINT_MAX, UINT_MAX + 1, LONG_MAX + 1}}
TotalsizeArgs ==
  UnsignedArgs \cup {PyInt(LONG_MIN - 1), PyInt(INT_MAX + 1), PyOther}
SignedArgs ==
  {PyInt(v) : v \in {LONG_MIN - 1, LONG_MIN, INT_MIN - 1, INT_MIN, 0,
                     INT_MAX, INT_MAX + 1, LONG_MAX + 1}} \cup {PyOther}
IntbitArgs == {PyBool(TRUE), PyBool(FALSE), PyInt(1)}

SetterArgs(field) ==
  CASE field = "totalsize" -> TotalsizeArgs
    [] field \in UnsignedFields \ {"totalsize"} -> UnsignedArgs
    [] field \in SignedFields -> SignedArgs
    [] field \in IntbitFields -> IntbitArgs

InitFF == InitBuilder({"m1"}) /\ InitFloatFormat /\ InitTypes /\ InitLive /\ InitTimer

NextFF ==
  \/ \E f \in FloatFormatFields : ffpy_get(f) /\ UNCHANGED notfloatformat
  \/ \E f \in FloatFormatFields :
       \E v \in SetterArgs(f) : ffpy_set(f, v) /\ UNCHANGED notfloatformat
  \/ ffpy_init /\ UNCHANGED notfloatformat

SpecFF == InitFF /\ [][NextFF]_vars

\* The values a field can hold.
ValidRange(field) ==
  CASE field \in UnsignedFields -> {PyInt(v) : v \in 0..UINT_MAX}
    [] field \in SignedFields -> {PyInt(v) : v \in INT_MIN..INT_MAX}
    [] field \in IntbitFields -> {PyBool(TRUE), PyBool(FALSE)}

\* C13: for each of the nine writable fields and every value of the field's
\* range, the setter accepts the value and stores what the getter turns
\* back into exactly that value; a set of such a value followed by a get
\* returns the value set.
C13_RoundTrip ==
  /\ \A f \in FloatFormatFields :
       \A v \in ValidRange(f) :
         LET native_value == py_to_field(f, v)
         IN  /\ native_value.ok
             /\ ~native_value.pending
             /\ field_to_py(f, native_value.val) = v
  /\ [][/\ (ffret'.op = "set" /\ ffret'.arg \in ValidRange(ffret'.field))
            => /\ ffret'.result = "ok"
               /\ field_to_py(ffret'.field, ff'[ffret'.field]) = ffret'.arg
        /\ (/\ ffret.op = "set"
            /\ ffret.arg \in ValidRange(ffret.field)
            /\ ffret'.op = "get"
            /\ ffret'.field = ffret.field)
            => ffret'.value = ffret.arg]_vars

\* totalsize, set to the largest unsigned int, was read back.
C13_Witness ==
  /\ ffret = FFCall("get", "totalsize", PyNone, "ok", PyInt(UINT_MAX))
  /\ ff["exp_bias"] = INT_MIN
  /\ ff["intbit"] = floatformat_intbit_no

\* An error of a setter.
SetterErrors == {"TypeError", "ValueError", "OverflowError"}

\* C14: a set of an unsigned field to a value below zero or above the
\* largest unsigned int ends in an error and leaves every field of the
\* format as it was.
C14_UnsignedOutOfRange ==
  [][(/\ ffret'.op = "set"
      /\ ffret'.field \in UnsignedFields
      /\ ffret'.arg.t = "int"
      /\ (ffret'.arg.v < 0 \/ ffret'.arg.v > UINT_MAX)) =>
       (ffret'.result \in SetterErrors /\ ff' = ff)]_vars

\* A value that does not fit a long was refused for man_len, and the
\* fields set before are still there.
C14_Witness ==
  /\ ffret = FFCall("set", "man_len", PyInt(LONG_MAX + 1), "ValueError",
                    PyNone)
  /\ ff["man_len"] = UINT_MAX
  /\ ff["totalsize"] = INT_MAX + 1
  /\ ff["exp_bias"] = INT_MAX

\* C15: a set of exp_bias to an integer above the largest or below the
\* smallest int ends in an error and leaves exp_bias as it was.
C15_SignedOutOfRange ==
  [][(/\ ffret'.op = "set"
      /\ ffret'.field \in SignedFields
      /\ ffret'.arg.t = "int"
      /\ (ffret'.arg.v < INT_MIN \/ ffret'.arg.v > INT_MAX)) =>
       (ffret'.result \in SetterErrors /\ ff' = ff)]_vars

(***************************************************************************)
(* SpecTypes: the gdb.init_*_type functions on the obstacks of one         *)
(* architecture and one objfile, with a FloatFormat object whose totalsize *)
(* is set between the calls.                                               *)
(***************************************************************************)
OwnerArgs == {ArchObject, ObjfileObject, OtherObject}
FormatArgs == {FloatFormatObject, OtherObject}
IntegerSizes == {8, 16}

\* The gdb.Type objects there are, and an object that is no gdb.Type.
TypeObjects(hp) ==
  {NotATypeObject} \cup {i \in 1..Len(hp) : hp[i].what = "type"}

InitTy == InitBuilder({"m1"}) /\ InitFloatFormat /\ InitTypes /\ InitLive /\ InitTimer

nottypes == <<bvars, ffvars, lifevars, timervars>>

NextTy ==
  \/ \E o \in OwnerArgs :
       gdbpy_init_type(o, "TYPE_CODE_STRUCT", 32, "t") /\ UNCHANGED nottypes
  \/ \E o \in OwnerArgs, b \in IntegerSizes, u \in BOOLEAN :
       gdbpy_init_integer_type(o, b, u, "t") /\ UNCHANGED nottypes
  \/ \E o \in OwnerArgs :
       gdbpy_init_character_type(o, 8, FALSE, "t") /\ UNCHANGED nottypes
  \/ \E o \in OwnerArgs :
       gdbpy_init_boolean_type(o, 8, TRUE, "t") /\ UNCHANGED nottypes
  \/ \E o \in OwnerArgs, f \in FormatArgs :
       gdbpy_init_float_type(o, f, "t") /\ UNCHANGED nottypes
  \/ \E o \in OwnerArgs :
       gdbpy_init_decfloat_type(o, 32, "t") /\ UNCHANGED nottypes
  \/ \E t \in TypeObjects(heap) :
       gdbpy_init_complex_type(t, "t") /\ UNCHANGED nottypes
  \/ \E o \in OwnerArgs, t \in TypeObjects(heap) :
       gdbpy_init_pointer_type(o, t, 64, "t") /\ UNCHANGED nottypes
  \/ \E o \in OwnerArgs :
       gdbpy_init_fixed_point_type(o, 16, FALSE, "t") /\ UNCHANGED nottypes
  \/ \E v \in {PyInt(0), PyInt(UINT_MAX)} :
       ffpy_set("totalsize", v) /\ UNCHANGED notfloatformat

SpecTypes == InitTy /\ [][NextTy]_vars

\* The format a float type has.
type_format(hp, source, type) == format_at(hp, source, hp[type].body.format)

FloatTypes(hp) ==
  {i \in 1..Len(hp) : hp[i].what = "type" /\ hp[i].body.code = "TYPE_CODE_FLT"}

\* C16: init_float_type puts a copy of the format on the owner's obstack:
\* the type made has the fields the FloatFormat object has at the call, and
\* no later call, a setter of the object included, changes a field of the
\* format of a float type.
C16_FormatCopied ==
  [][/\ (/\ tyret'.op = "init_float_type"
         /\ tyret'.result = "ok"
         /\ tyret'.type > Len(heap)) =>
          /\ type_format(heap', ff', tyret'.type) = ff
          /\ heap'[tyret'.type].body.format \in 1..Len(heap')
          /\ heap'[heap'[tyret'.type].body.format].arena
               = type_storage_owner(tyret'.owner)
     /\ \A t \in FloatTypes(heap) :
          type_format(heap', ff', t) = type_format(heap, ff, t)]_vars

\* A float type was made from a format of totalsize UINT_MAX, and the
\* totalsize of the object was set to zero afterwards.
C16_Witness ==
  /\ \E t \in FloatTypes(heap) :
       type_format(heap, ff, t)["totalsize"] = UINT_MAX
  /\ ff["totalsize"] = 0
  /\ ffret.op = "set"

\* A step that is a call of an init_*_type function taking an owner, with
\* the owner o and arguments that are valid otherwise.
OwnerCall(o) ==
  \/ gdbpy_init_type(o, "TYPE_CODE_STRUCT", 32, "t")
  \/ \E b \in IntegerSizes, u \in BOOLEAN :
       gdbpy_init_integer_type(o, b, u, "t")
  \/ gdbpy_init_character_type(o, 8, FALSE, "t")
  \/ gdbpy_init_boolean_type(o, 8, TRUE, "t")
  \/ gdbpy_init_float_type(o, FloatFormatObject, "t")
  \/ gdbpy_init_decfloat_type(o, 32, "t")
  \/ \E t \in TypeObjects(heap) \ {NotATypeObject} :
       gdbpy_init_pointer_type(o, t, 64, "t")
  \/ gdbpy_init_fixed_point_type(o, 16, FALSE, "t")

\* C17: each of the eight init_*_type functions that take an owner accepts
\* an architecture and an objfile as the owner and makes the type on the
\* obstack of that owner, and refuses an owner that is neither.
C17_BothOwnersAccepted ==
  [][/\ \A o \in {ArchObject, ObjfileObject} :
          OwnerCall(o) =>
            /\ tyret'.result = "ok"
            /\ heap'[tyret'.type].what = "type"
            /\ heap'[tyret'.type].arena = type_storage_owner(o)
     /\ OwnerCall(OtherObject) =>
          (tyret'.result # "ok" /\ heap' = heap)]_vars

\* A step that is a call of an init_*_type function.
TypeCalled == tyret' # tyret \/ heap' # heap

\* C18: a call of an init_*_type function that fails for an argument (an
\* owner of neither kind, an object that is no gdb.Type where a type is
\* needed, a base type no complex type can be made of) has allocated
\* nothing: no copy of the name, no copy of the format, no type.
C18_FailsBeforeAllocating ==
  [][(TypeCalled /\ tyret'.result # "ok") => heap' = heap]_vars

IntegerTypes(hp) ==
  {i \in 1..Len(hp) : hp[i].what = "type" /\ hp[i].body.code = "TYPE_CODE_INT"}

\* C19: init_pointer_type with a valid owner and a type made by
\* init_integer_type as the target, of any size and signedness and on
\* either obstack, succeeds with a pointer type whose target is that very
\* type, and leaves the type as it was.
C19_PointerTargetsType ==
  [][\A o \in {ArchObject, ObjfileObject} :
       \A t \in IntegerTypes(heap) :
         gdbpy_init_pointer_type(o, t, 64, "t") =>
           /\ tyret'.result = "ok"
           /\ heap'[tyret'.type].body.code = "TYPE_CODE_PTR"
           /\ heap'[tyret'.type].body.target = t
           /\ heap'[t] = heap[t]
           /\ IntegerTypes(heap') = IntegerTypes(heap)]_vars

\* The objfile has a pointer type whose target is an unsigned integer type
\* of the architecture.
C19_Witness ==
  /\ tyret.op = "init_pointer_type"
  /\ tyret.result = "ok"
  /\ heap[tyret.type].arena = "objfile"
  /\ heap[tyret.type].body.target \in IntegerTypes(heap)
  /\ heap[heap[tyret.type].body.target].arena = "arch"
  /\ heap[heap[tyret.type].body.target].body.unsigned

\* The services of type_storage_owner that start with gdb_assert (valid ()).
OwnerServices == {"allocator", "get_obstack", "get_arch", "copy_string"}

\* C24: in every call of an init_*_type function that takes an owner, each
\* call of allocator, get_obstack, get_arch and copy_string is made on an
\* owner for which valid () holds, so that no gdb_assert of them fails; for
\* an owner that is neither an architecture nor an objfile the function
\* ends in an error with none of these services called and nothing
\* allocated.
C24_ServicesAfterValid ==
  [][TypeCalled =>
       /\ \A i \in 1..Len(tyret'.calls) :
            /\ tyret'.calls[i].service \in OwnerServices
            /\ tyret'.calls[i].asserted
            /\ valid(type_storage_owner(tyret'.owner))
       /\ tyret'.owner = OtherObject =>
            /\ tyret'.result # "ok"
            /\ tyret'.calls = <<>>
            /\ heap' = heap]_vars

\* init_float_type on the architecture has called all four services, each
\* with its gdb_assert holding.
C24_Witness ==
  /\ tyret.op = "init_float_type"
  /\ tyret.owner = ArchObject
  /\ tyret.result = "ok"
  /\ {tyret.calls[i].service : i \in 1..Len(tyret.calls)} = OwnerServices
  /\ \A i \in 1..Len(tyret.calls) : tyret.calls[i].asserted

\* A call with an owner of neither kind has ended in an error.
C24_WitnessRefused ==
  /\ tyret.op = "init_integer_type"
  /\ tyret.owner = OtherObject
  /\ tyret.result = "TypeError"
  /\ tyret.calls = <<>>

(***************************************************************************)
(* SpecLife: ObjfileBuilder objects made, used and deallocated one after   *)
(* the other.                                                              *)
(***************************************************************************)
InitLife == InitNoObject /\ InitFloatFormat /\ InitTypes /\ InitTimer

notlife == <<ffvars, tyvars, timervars>>

NextLife ==
  \/ \E ok \in BOOLEAN : objbdpy_new(ok) /\ UNCHANGED notlife
  \/ \E b \in {"m1", NoName} : objbdpy_init(b) /\ Touch /\ UNCHANGED notlife
  \/ \E l \in {"c", "klingon"} :
       objbdpy_add_label_symbol("n1", 1, l) /\ Touch /\ UNCHANGED notlife
  \/ \E s \in StrayOutcomes :
       objbdpy_build("none", s, 1) /\ Touch /\ UNCHANGED notlife
  \/ objbdpy_build_return /\ Touch /\ UNCHANGED notlife
  \/ objbdpy_dealloc /\ UNCHANGED notlife

SpecLife == InitLife /\ [][NextLife]_vars

\* C20: the memory of a builder object is allocated, the state is
\* constructed in it once, before any method runs on it, and at the end
\* the destructor runs once and before the memory is handed back; no method
\* runs on memory that holds no constructed state.
C20_LifecycleOrder ==
  /\ life.log \in {<<>>, <<"tp_alloc", "construct">>,
                   <<"tp_alloc", "construct", "destruct", "tp_free">>}
  /\ ~life.strayed

\* The second object was built and then deallocated.
C20_Witness ==
  /\ life.objects = MaxObjects
  /\ life.log = <<"tp_alloc", "construct", "destruct", "tp_free">>
  /\ last = Call("dealloc", NoLang, "ok")
  /\ Len(built) = MaxObjects

(***************************************************************************)
(* The two tables of a built objfile against the map it was built from.    *)
(***************************************************************************)
\* The kinds of definition that have an address.
AddressedKinds == {"label", "static"}

\* C21: the objfile of a build() that was not refused and did not throw,
\* built from the map S of the builder (the empty map included), has one
\* compilation unit, named after the builder, that holds exactly one full
\* symbol per name of S; its minimal symbol table holds exactly one entry
\* per name of S that is a Label or a StaticData definition, at the address
\* of the full symbol of that name; neither table holds anything else, and
\* both are empty when S is.
C21_TablesInSync ==
  [][BuildNotified =>
       LET of == notified'[Len(notified')].of
           full(n) == {sym \in full_symbols(of) : sym.name = n}
           fast(n) == lookup_minimal_symbol(of, n)
       IN  /\ Cardinality(of.compunits) = 1
           /\ \A cu \in of.compunits : cu.name = name
           /\ \A n \in DOMAIN symbols : Cardinality(full(n)) = 1
           /\ \A sym \in full_symbols(of) : sym.name \in DOMAIN symbols
           /\ \A n \in DOMAIN symbols :
                IF symbols[n].kind \in AddressedKinds
                THEN /\ Cardinality(fast(n)) = 1
                     /\ \A m \in fast(n), sym \in full(n) :
                          /\ sym.has_address
                          /\ m.address = sym.address
                          /\ m.address = symbols[n].address
                ELSE fast(n) = {}
           /\ \A m \in of.msymbols : m.name \in DOMAIN symbols
           /\ symbols = EmptyMap =>
                (of.msymbols = {} /\ full_symbols(of) = {})]_vars

\* An objfile was built from a map of two names, a Typedef and a Label: two
\* full symbols and one minimal symbol.
C21_Witness ==
  /\ last = Call("build", NoLang, "notifying")
  /\ Cardinality(DOMAIN symbols) = 2
  /\ \E n \in DOMAIN symbols, m \in DOMAIN symbols :
       /\ symbols[n].kind = "typedef"
       /\ symbols[m].kind = "label"
  /\ LET of == notified[Len(notified)].of
     IN  /\ Cardinality(full_symbols(of)) = 2
         /\ Cardinality(of.msymbols) = 1

\* An objfile was built from the empty map and returned by build().
C21_WitnessEmpty ==
  /\ last = Call("build", NoLang, "ok")
  /\ symbols = EmptyMap
  /\ built # <<>>
  /\ LET of == notified[built[Len(built)]].of
     IN  of.msymbols = {} /\ full_symbols(of) = {}

(***************************************************************************)
(* SpecOwners: integer and pointer types made on the obstacks of the       *)
(* architecture and of one objfile, and the objfile freed.  The gdb.Objfile*)
(* handed to a call after that is the object of an objfile that is loaded  *)
(* then; the storage of the freed one stays marked as freed.               *)
(***************************************************************************)
\* Storage that was handed back with the obstack it was on.
Freed(arena) == Alloc(arena, "freed", "", floatformat_zero, NoBody)

\* obstack_free of a whole obstack: all that was allocated on it is gone.
obstack_free(hp, arena) ==
  [i \in 1..Len(hp) |-> IF hp[i].arena = arena THEN Freed(arena) ELSE hp[i]]

\* The objfile is destroyed: its obstack is freed, the obstack of the
\* architecture is not touched.
free_objfile ==
  /\ heap' = obstack_free(heap, "objfile")
  /\ tyret' = [op |-> "free_objfile", owner |-> ObjfileObject,
               result |-> "ok", type |-> Null, calls |-> <<>>]

InitOwners == InitBuilder({"m1"}) /\ InitFloatFormat /\ InitTypes /\ InitLive /\ InitTimer

NextOwners ==
  \/ \E o \in OwnerArgs, b \in IntegerSizes, u \in BOOLEAN :
       gdbpy_init_integer_type(o, b, u, "t") /\ UNCHANGED nottypes
  \/ \E o \in OwnerArgs, t \in TypeObjects(heap) :
       gdbpy_init_pointer_type(o, t, 64, "t") /\ UNCHANGED nottypes
  \/ free_objfile /\ UNCHANGED nottypes

SpecOwners == InitOwners /\ [][NextOwners]_vars

\* The pointer types that are in storage that was not freed.
PointerTypes(hp) ==
  {i \in 1..Len(hp) : hp[i].what = "type" /\ hp[i].body.code = "TYPE_CODE_PTR"}

\* C22: in every state, the states after the objfile was freed included,
\* the target of every pointer type that is still allocated is a type that
\* is still allocated.
C22_PointeeLive ==
  \A p \in PointerTypes(heap) : heap[heap[p].body.target].what = "type"

(***************************************************************************)
(* The installed flag over the life of one builder (SpecData).             *)
(***************************************************************************)
\* C23: installed is false when the builder is made, and no call sets it
\* back: once true it is true after every add_*_symbol, after a build()
\* that is refused, and after __init__ is run again on the object, which
\* sets the name to its argument and empties the map and leaves a builder
\* whose build() is still refused.
C23_InstalledMonotonic ==
  /\ installed = FALSE
  /\ [][/\ installed => installed'
        /\ (installed /\ last'.op \in AddOps) => installed'
        /\ (installed /\ BuildCalled) =>
             (last'.result = "ValueError" /\ installed')
        /\ \A b \in BuilderNames :
             (installed /\ last'.op = "__init__" /\ objbdpy_init(b)) =>
               /\ name' = b
               /\ symbols' = EmptyMap
               /\ installed'
               /\ build_refused(installed')]_vars

\* __init__ was run again on a builder that was built under another name
\* and held a definition: the name is the new one, the map is empty, and
\* installed is still set.
C23_Witness ==
  /\ last = Call("__init__", NoLang, "ok")
  /\ installed
  /\ built # <<>>
  /\ notified[built[1]].of.name # name
  /\ notified[built[1]].of.msymbols # {}
  /\ symbols = EmptyMap

(***************************************************************************)
(* SpecTimer: one checkpoint_timer under begin, end and dump.              *)
(***************************************************************************)
nottimer == <<bvars, ffvars, tyvars, lifevars>>

InitTm == InitBuilder({"m1"}) /\ InitFloatFormat /\ InitTypes /\ InitLive /\ InitTimer

NextTm ==
  \/ \E nm \in Labels, tsc \in Ticks : begin(nm, tsc) /\ UNCHANGED nottimer
  \/ \E tsc \in Ticks : end(tsc) /\ UNCHANGED nottimer
  \/ dump /\ UNCHANGED nottimer

SpecTimer == InitTm /\ [][NextTm]_vars

\* The events of kind k among the first n events.
RECURSIVE CountEvents(_, _, _)
CountEvents(events, k, n) ==
  IF n = 0 THEN 0
  ELSE CountEvents(events, k, n - 1) + (IF events[n] = k THEN 1 ELSE 0)

\* What holds of the members of a timer after begins calls of begin and
\* ends calls of end that returned.
TimerConsistent(t, begins, ends) ==
  /\ t.depth = begins - ends
  /\ t.depth >= 0
  /\ t.depth <= t.max_depth
  /\ Len(t.events) = Len(t.times)
  /\ Len(t.labels) = CountEvents(t.events, "begin", Len(t.events))
  /\ \A n \in 0..Len(t.events) :
       CountEvents(t.events, "end", n) <= CountEvents(t.events, "begin", n)
  /\ ~dump_outcome(t).undefined

\* C25: after every sequence of begin and end calls, depth is the number of
\* begin calls less the number of end calls that returned and is not below
\* zero, depth is at most max_depth, events and times have one length,
\* labels has one entry per begin event, no prefix of events has more end
\* than begin events, and dump takes nothing from an empty stack; an end at
\* depth zero throws and leaves every member as it was.
C25_TimerConsistent ==
  /\ TimerConsistent(timer, tmret.begins, tmret.ends)
  /\ [][/\ TimerConsistent(timer', tmret'.begins, tmret'.ends)
        /\ \A tsc \in Ticks :
             (timer.depth = 0 /\ tmret'.op = "end" /\ end(tsc)) =>
               /\ tmret'.result = "std::runtime_error"
               /\ timer' = timer
               /\ tmret'.ends = tmret.ends]_vars

\* Two nested begins, both ended, then an end that threw at depth zero.
C25_Witness ==
  /\ tmret = TimerCall("end", "std::runtime_error", 2, 2)
  /\ timer.events = <<"begin", "begin", "end", "end">>
  /\ timer.depth = 0
  /\ timer.max_depth = 2
  /\ Len(timer.labels) = 2

====
